---- MODULE Spec2Model ----
(***************************************************************************)
(* ts-transformer-json-schema: the compile-time transformer that replaces  *)
(* each call schema<T>() by a schema literal describing T.                 *)
(*                                                                         *)
(* The decomposer (parseType and the functions it dispatches to) is        *)
(* modelled twice from the same source lines: as recursive operators       *)
(* (the value a call returns, with the shared history array threaded       *)
(* through), and as a machine with an explicit call stack whose actions    *)
(* are the statements between two calls, so that the content of the        *)
(* history array is a state at every point of a decomposition.             *)
(*                                                                         *)
(* Spec is one call of visitNode on a schema call of part_000.  TreeSpec   *)
(* is the traversal of a whole source file by either variant: part_000     *)
(* runs the machine on every schema call it meets, transformer.ts takes    *)
(* the value of its own parseType.                                         *)
(***************************************************************************)
EXTENDS Naturals, Sequences, FiniteSets, TLC

(***************************************************************************)
(* Bounds of the model.                                                    *)
(***************************************************************************)
\* the JavaScript call stack: a recursion deeper than this many activations
\* ends in "RangeError: Maximum call stack size exceeded"
MaxStack == 7

(***************************************************************************)
(* Syntax nodes the transformer creates (ts.createObjectLiteral,           *)
(* ts.createArrayLiteral, ts.createLiteral, ts.createPropertyAssignment).  *)
(* A literal keeps its JavaScript type beside its text, so that the        *)
(* string "true" and the boolean true differ.                              *)
(***************************************************************************)
createObjectLiteral(properties) == [k |-> "obj", properties |-> properties]

createArrayLiteral(elements) == [k |-> "arr", elements |-> elements]

createLiteral(ty, v) == [k |-> "lit", ty |-> ty, v |-> v]

createPropertyAssignment(name, initializer) == [name |-> name, initializer |-> initializer]

StringLiteral(s) == createLiteral("string", s)

TrueLiteral == createLiteral("boolean", "true")

\* object.properties is defined (truthy) on an object literal only
hasProperties(node) == node.k = "obj"

(***************************************************************************)
(* ts.TypeFlags: a type's flags are a set of flag names; the masks the     *)
(* code tests with & are the sets of flags they are made of.               *)
(***************************************************************************)
StringLike == {"String", "StringLiteral", "TemplateLiteral", "StringMapping"}

NumberLike == {"Number", "NumberLiteral", "Enum"}

BooleanLike == {"Boolean", "BooleanLiteral"}

EnumLike == {"Enum", "EnumLiteral"}

Literal == {"StringLiteral", "NumberLiteral", "BigIntLiteral", "BooleanLiteral"}

\* flags & mask
HasFlag(flags, mask) == flags \cap mask # {}

(***************************************************************************)
(* The type descriptors of the type checker.  Types refer to each other    *)
(* by identifier; Types maps an identifier to its descriptor.              *)
(***************************************************************************)
Tag(name, text) == [name |-> name, text |-> text]

\* a property symbol: declared (property.declarations is non-empty),
\* question (declarations[0].questionToken), hasType (property.type)
Prop(name, type, question, docs) ==
    [name |-> name, type |-> type, declared |-> TRUE, question |-> question,
     hasType |-> FALSE, docs |-> docs]

Ty(flags, display) ==
    [flags |-> flags, display |-> display, name |-> "", objectFlags |-> "",
     hasValue |-> FALSE, value |-> createLiteral("undefined", ""), intrinsicName |-> "",
     isArray |-> FALSE, hasTypeArguments |-> FALSE, typeArguments |-> <<>>,
     index |-> FALSE, props |-> <<>>, types |-> <<>>,
     docs |-> <<>>, aliasDocs |-> <<>>]

StringLit(text) ==
    [Ty({"StringLiteral"}, text) EXCEPT
        !.hasValue = TRUE, !.value = createLiteral("string", text)]

NumberLit(text) ==
    [Ty({"NumberLiteral"}, text) EXCEPT
        !.hasValue = TRUE, !.value = createLiteral("number", text)]

BooleanLit(text) == [Ty({"BooleanLiteral"}, text) EXCEPT !.intrinsicName = text]

EnumMember(display, text) ==
    [Ty({"NumberLiteral", "EnumLiteral"}, display) EXCEPT
        !.hasValue = TRUE, !.value = createLiteral("number", text)]

EnumTy(display, members) ==
    [Ty({"EnumLiteral", "Union"}, display) EXCEPT !.types = members]

Interface(name, props) ==
    [Ty({"Object"}, name) EXCEPT !.name = name, !.objectFlags = "Interface", !.props = props]

\* an object literal type: its symbol is named __type
TypeLiteral(display, props) ==
    [Ty({"Object"}, display) EXCEPT
        !.name = "__type", !.objectFlags = "Anonymous", !.props = props]

ArrayOf(display, elem) ==
    [Ty({"Object"}, display) EXCEPT
        !.name = "Array", !.objectFlags = "Reference", !.isArray = TRUE,
        !.hasTypeArguments = TRUE, !.typeArguments = <<elem>>,
        !.props = <<Prop("length", "number", FALSE, <<>>)>>]

Union(display, members) == [Ty({"Union"}, display) EXCEPT !.types = members]

Intersection(display, members) == [Ty({"Intersection"}, display) EXCEPT !.types = members]

(***************************************************************************)
(* The types of the programs decomposed here.                              *)
(***************************************************************************)
NoDocs == <<>>

Primitives ==
    ("string" :> Ty({"String"}, "string")) @@
    ("number" :> Ty({"Number"}, "number")) @@
    ("boolean" :> [Ty({"Boolean", "Union"}, "boolean") EXCEPT !.types = <<"false", "true">>]) @@
    ("any" :> Ty({"Any"}, "any")) @@
    ("lit_x" :> StringLit("x")) @@
    ("lit_1" :> NumberLit("1")) @@
    ("false" :> BooleanLit("false")) @@
    ("true" :> BooleanLit("true")) @@
    ("null" :> Ty({"Null"}, "null")) @@
    ("undefined" :> Ty({"Undefined"}, "undefined")) @@
    ("never" :> Ty({"Never"}, "never")) @@
    ("void" :> Ty({"Void"}, "void")) @@
    ("unknown" :> Ty({"Unknown"}, "unknown")) @@
    ("Color.Red" :> EnumMember("Color.Red", "0")) @@
    ("Color.Green" :> EnumMember("Color.Green", "1")) @@
    ("Color" :> EnumTy("Color", <<"Color.Red", "Color.Green">>))

\* the five marker names, whatever the shape of the type carrying them
Markers ==
    ("IDate" :> Interface("IDate", <<Prop("getTime", "number", FALSE, NoDocs)>>)) @@
    ("IEmail" :> Interface("IEmail", <<>>)) @@
    ("IForbidden" :> [Interface("IForbidden", <<>>) EXCEPT !.index = TRUE]) @@
    ("IUrl" :> [ArrayOf("IUrl", "string") EXCEPT !.name = "IUrl"]) @@
    ("IUUID" :> Interface("IUUID", <<Prop("self", "IUUID", TRUE, NoDocs)>>))

Objects ==
    ("Pair" :> [Interface("Pair",
                  <<Prop("a", "string", FALSE, <<Tag("min", "5"), Tag("pattern", "abc"), Tag("deprecated", "")>>),
                    Prop("b", "number", TRUE, NoDocs)>>)
                EXCEPT !.docs = <<Tag("strict", "true")>>]) @@
    ("Other" :> Interface("Other",
                  <<Prop("b", "string", FALSE, NoDocs),
                    Prop("c", "Pair", FALSE, <<Tag("empty", "false")>>)>>)) @@
    ("Empty" :> Interface("Empty", <<>>)) @@
    ("Anon" :> [TypeLiteral("{ a: string; }", <<Prop("a", "string", FALSE, NoDocs)>>)
                EXCEPT !.aliasDocs = <<Tag("strict", "remove")>>]) @@
    ("AnonB" :> TypeLiteral("{ b: number; }", <<Prop("b", "number", FALSE, NoDocs)>>)) @@
    ("Dict" :> [TypeLiteral("{ [k: string]: number; }", <<>>) EXCEPT !.index = TRUE]) @@
    \* a mapped type: its properties carry a type and no declaration; one
    \* symbol has neither and is filtered out
    ("Mapped" :> TypeLiteral("{ x: string; y: number; }",
                  <<[Prop("x", "string", FALSE, NoDocs) EXCEPT !.declared = FALSE, !.hasType = TRUE],
                    [Prop("ghost", "string", FALSE, NoDocs) EXCEPT !.declared = FALSE],
                    [Prop("y", "number", TRUE, NoDocs) EXCEPT !.declared = FALSE, !.hasType = TRUE]>>)) @@
    ("Holder" :> Interface("Holder",
                  <<Prop("when", "IDate", TRUE, <<Tag("convert", "true")>>),
                    Prop("list", "Pair[]", FALSE, NoDocs),
                    Prop("color", "Color", TRUE, NoDocs),
                    Prop("inner", "Anon", FALSE, NoDocs)>>))

Arrays ==
    ("string[]" :> ArrayOf("string[]", "string")) @@
    ("Pair[]" :> ArrayOf("Pair[]", "Pair")) @@
    ("void[]" :> ArrayOf("void[]", "void")) @@
    ("Opt[]" :> ArrayOf("(string | undefined)[]", "U_string")) @@
    ("OptPair[]" :> ArrayOf("(Pair | undefined)[]", "U_Pair")) @@
    ("Tree[]" :> ArrayOf("Tree[]", "Tree")) @@
    ("TreeLast[]" :> ArrayOf("TreeLast[]", "TreeLast")) @@
    ("Bare[]" :> [ArrayOf("Array", "any") EXCEPT !.hasTypeArguments = FALSE, !.typeArguments = <<>>])

\* object types that refer to themselves or to each other
Cyclic ==
    ("NodeFirst" :> Interface("NodeFirst",
                  <<Prop("next", "NodeFirst", TRUE, NoDocs),
                    Prop("value", "string", FALSE, NoDocs)>>)) @@
    ("NodeMid" :> Interface("NodeMid",
                  <<Prop("a", "string", FALSE, NoDocs),
                    Prop("next", "NodeMid", FALSE, NoDocs),
                    Prop("b", "number", FALSE, NoDocs)>>)) @@
    ("NodeLast" :> Interface("NodeLast",
                  <<Prop("value", "string", FALSE, NoDocs),
                    Prop("next", "U_NodeLast", TRUE, NoDocs)>>)) @@
    ("U_NodeLast" :> Union("NodeLast | undefined", <<"undefined", "NodeLast">>)) @@
    ("NodeOpt" :> Interface("NodeOpt",
                  <<Prop("next", "U_NodeOpt", TRUE, NoDocs),
                    Prop("value", "string", FALSE, NoDocs)>>)) @@
    ("U_NodeOpt" :> Union("NodeOpt | undefined", <<"undefined", "NodeOpt">>)) @@
    ("Tree" :> Interface("Tree",
                  <<Prop("children", "Tree[]", FALSE, NoDocs),
                    Prop("label", "string", FALSE, NoDocs)>>)) @@
    ("TreeLast" :> Interface("TreeLast",
                  <<Prop("label", "string", FALSE, NoDocs),
                    Prop("children", "TreeLast[]", FALSE, NoDocs)>>)) @@
    ("Ping" :> Interface("Ping", <<Prop("pong", "Pong", FALSE, NoDocs)>>)) @@
    ("Pong" :> Interface("Pong", <<Prop("ping", "Ping", FALSE, NoDocs)>>)) @@
    ("Ping2" :> Interface("Ping2",
                  <<Prop("id", "string", FALSE, NoDocs),
                    Prop("pong", "Pong2", FALSE, NoDocs)>>)) @@
    ("Pong2" :> Interface("Pong2", <<Prop("ping", "Ping2", FALSE, NoDocs)>>)) @@
    \* type Alias = { next?: Alias; value: string }: the symbol is __type
    ("Alias" :> TypeLiteral("Alias",
                  <<Prop("next", "Alias", TRUE, NoDocs),
                    Prop("value", "string", FALSE, NoDocs)>>))

\* unions holding undefined and one other member
OptionalUnions ==
    ("U_string" :> Union("string | undefined", <<"undefined", "string">>)) @@
    ("U_lit" :> Union("\"x\" | undefined", <<"undefined", "lit_x">>)) @@
    ("U_boolean" :> Union("boolean | undefined", <<"undefined", "false", "true">>)) @@
    ("U_array" :> Union("string[] | undefined", <<"undefined", "string[]">>)) @@
    ("U_Pair" :> Union("Pair | undefined", <<"undefined", "Pair">>)) @@
    ("U_Empty" :> Union("Empty | undefined", <<"undefined", "Empty">>)) @@
    ("U_IDate" :> Union("IDate | undefined", <<"undefined", "IDate">>)) @@
    ("U_Dict" :> Union("Dict | undefined", <<"undefined", "Dict">>)) @@
    ("U_null" :> Union("null | undefined", <<"undefined", "null">>)) @@
    ("U_Both" :> Union("(Anon & AnonB) | undefined", <<"undefined", "Both">>)) @@
    ("U_Color" :> Union("Color | undefined", <<"undefined", "Color">>)) @@
    ("Opts" :> Interface("Opts",
                  <<Prop("s", "U_string", TRUE, NoDocs),
                    Prop("p", "U_Pair", FALSE, NoDocs),
                    Prop("d", "U_IDate", FALSE, NoDocs),
                    Prop("n", "U_null", FALSE, NoDocs)>>))

Unions ==
    ("M_sn" :> Union("string | number", <<"string", "number">>)) @@
    ("M_objs" :> Union("Pair | Other", <<"Pair", "Other">>)) @@
    ("M_snu" :> Union("string | null | undefined", <<"undefined", "null", "string">>)) @@
    ("M_bs" :> Union("string | boolean", <<"string", "false", "true">>)) @@
    ("M_mix" :> Union("boolean | Pair | IDate | undefined", <<"undefined", "false", "true", "Pair", "IDate">>)) @@
    ("M_lits" :> Union("\"x\" | 1", <<"lit_x", "lit_1">>)) @@
    ("M_litsu" :> Union("boolean | \"x\" | undefined", <<"undefined", "lit_x", "false", "true">>)) @@
    ("M_void" :> Union("string | void", <<"string", "void">>)) @@
    ("Alts" :> Interface("Alts",
                  <<Prop("q", "M_snu", TRUE, NoDocs),
                    Prop("r", "M_objs", FALSE, <<Tag("min", "1")>>),
                    Prop("t", "M_litsu", TRUE, NoDocs)>>))

Intersections ==
    ("Both" :> Intersection("Anon & AnonB", <<"Anon", "AnonB">>)) @@
    ("PairOther" :> [Intersection("Pair & Other", <<"Pair", "Other">>)
                     EXCEPT !.aliasDocs = <<Tag("strict", "false")>>]) @@
    ("Three" :> Intersection("Other & Pair & AnonB", <<"Other", "Pair", "AnonB">>)) @@
    ("Branded" :> Intersection("string & Anon", <<"string", "Anon">>)) @@
    ("WithEmpty" :> Intersection("Empty & Pair", <<"Empty", "Pair">>)) @@
    ("Linked" :> Intersection("NodeFirst & AnonB", <<"NodeFirst", "AnonB">>)) @@
    ("Nest" :> Interface("Nest", <<Prop("both", "PairOther", TRUE, NoDocs)>>))

Types == Primitives @@ Markers @@ Objects @@ Arrays @@ Cyclic @@ OptionalUnions @@ Unions @@ Intersections

TypeIds == DOMAIN Types

\* every identifier a descriptor mentions names a descriptor
TypesClosed ==
    \A id \in TypeIds :
        /\ \A i \in DOMAIN Types[id].props : Types[id].props[i].type \in TypeIds
        /\ \A i \in DOMAIN Types[id].types : Types[id].types[i] \in TypeIds
        /\ \A i \in DOMAIN Types[id].typeArguments : Types[id].typeArguments[i] \in TypeIds

(***************************************************************************)
(* Sequence helpers (Array.prototype.map, filter, reverse, pop, indexOf).  *)
(***************************************************************************)
\* the indices a filter keeps, in increasing order
Ascending(indices) ==
    [j \in 1..Cardinality(indices) |->
        CHOOSE i \in indices : Cardinality({k \in indices : k < i}) = j - 1]

Reverse(s) == [i \in 1..Len(s) |-> s[Len(s) + 1 - i]]

RECURSIVE Flatten(_)
Flatten(ss) == IF ss = <<>> THEN <<>> ELSE Head(ss) \o Flatten(Tail(ss))

\* history.pop(): removes the last element, and nothing from an empty array
Pop(history) ==
    IF history = <<>> THEN history ELSE SubSeq(history, 1, Len(history) - 1)

\* history.indexOf(name) !== -1
InHistory(history, name) == \E i \in DOMAIN history : history[i] = name

(***************************************************************************)
(* The helper functions of the decomposer.                                 *)
(***************************************************************************)
predefined ==
    ("IDate" :> "date") @@ ("IEmail" :> "email") @@ ("IForbidden" :> "forbidden") @@
    ("IUrl" :> "url") @@ ("IUUID" :> "uuid")

TypeNode(kind) ==
    createObjectLiteral(<<createPropertyAssignment("type", StringLiteral(kind))>>)

OptionalAssignment == createPropertyAssignment("optional", TrueLiteral)

\* the texts of the model's doc tags that match
\* /^[+-]?([0-9]+([.][0-9]*)?|[.][0-9]+)$/
NumericTexts == {"5", "1"}

parseJSDocValue(text) ==
    IF text = "true" \/ text = "false" THEN createLiteral("boolean", text)
    ELSE IF text \in NumericTexts THEN createLiteral("number", text)
    ELSE createLiteral("string", text)

parseJSDoc(docs) ==
    LET kept == Ascending({i \in DOMAIN docs : docs[i].text # ""})
    IN  [j \in 1..Len(kept) |->
            createPropertyAssignment(docs[kept[j]].name, parseJSDocValue(docs[kept[j]].text))]

addProperties(object, combined_properties) ==
    createObjectLiteral(combined_properties \o object.properties)

addProperty(object, name, value) ==
    createObjectLiteral(Append(object.properties, createPropertyAssignment(name, value)))

parsePrimitive(type, optional) ==
    LET props == IF optional THEN <<OptionalAssignment>> ELSE <<>>
    IN  IF HasFlag(type.flags, Literal)
        THEN IF ~type.hasValue /\ type.intrinsicName # ""
             THEN createObjectLiteral(props \o
                    <<createPropertyAssignment("type", StringLiteral("enum")),
                      createPropertyAssignment("values", createArrayLiteral(
                        <<createLiteral("boolean",
                            IF type.intrinsicName = "true" THEN "true" ELSE "false")>>))>>)
             ELSE createObjectLiteral(props \o
                    <<createPropertyAssignment("type", StringLiteral("enum")),
                      createPropertyAssignment("values", createArrayLiteral(<<type.value>>))>>)
        ELSE createObjectLiteral(props \o
                <<createPropertyAssignment("type", StringLiteral(type.display))>>)

parseEnum(type, optional) ==
    LET values == [i \in 1..Len(type.types) |-> Types[type.types[i]].value]
    IN  createObjectLiteral(
            (IF optional THEN <<OptionalAssignment>> ELSE <<>>) \o
            <<createPropertyAssignment("type", StringLiteral("enum")),
              createPropertyAssignment("values", createArrayLiteral(values))>>)

\* parseArray once its element type is decomposed (items), or without one
arrayNode(optional, hasItems, items) ==
    createObjectLiteral(
        (IF optional THEN <<OptionalAssignment>> ELSE <<>>) \o
        <<createPropertyAssignment("type", StringLiteral("array"))>> \o
        (IF hasItems THEN <<createPropertyAssignment("items", items)>> ELSE <<>>))

(***************************************************************************)
(* parseUnion: the filter of the members, and the nodes it builds.         *)
(***************************************************************************)
isBooleanLiteral(id) == HasFlag(Types[id].flags, {"BooleanLiteral"})

\* the callback of union_type.types.filter applied to member i: the first
\* boolean literal survives, the later ones and undefined do not
unionKeeps(members, i) ==
    IF isBooleanLiteral(members[i])
    THEN \A j \in 1..(i - 1) : ~isBooleanLiteral(members[j])
    ELSE Types[members[i]].display # "undefined"

unionTypes(type) ==
    LET kept == Ascending({i \in DOMAIN type.types : unionKeeps(type.types, i)})
    IN  [j \in 1..Len(kept) |-> type.types[kept[j]]]

unionOptional(type) ==
    \E i \in DOMAIN type.types :
        ~isBooleanLiteral(type.types[i]) /\ Types[type.types[i]].display = "undefined"

unionLiterals(types) ==
    Len(types) # 0 /\ \A i \in DOMAIN types : HasFlag(Types[types[i]].flags, Literal)

booleanNode(optional) ==
    IF optional
    THEN createObjectLiteral(<<createPropertyAssignment("type", StringLiteral("boolean")),
                               OptionalAssignment>>)
    ELSE TypeNode("boolean")

unionEnumNode(types, optional) ==
    LET values == [i \in 1..Len(types) |->
                    IF isBooleanLiteral(types[i])
                    THEN createLiteral("boolean",
                            IF Types[types[i]].display = "false" THEN "false" ELSE "true")
                    ELSE Types[types[i]].value]
    IN  createObjectLiteral(
            (IF optional THEN <<OptionalAssignment>> ELSE <<>>) \o
            <<createPropertyAssignment("type", StringLiteral("enum")),
              createPropertyAssignment("values", createArrayLiteral(values))>>)

\* parseUnion with the push its comment disables: optional adds an alternative
unionArrayWithForbidden(mapped_types, optional) ==
    createArrayLiteral(
        IF optional
        THEN Append(mapped_types, TypeNode("forbidden"))
        ELSE mapped_types)

\* the end of parseUnion: optional:true on every element, then the array literal
unionArray(mapped_types, optional) ==
    createArrayLiteral(
        IF optional
        THEN [i \in 1..Len(mapped_types) |-> addProperty(mapped_types[i], "optional", TrueLiteral)]
        ELSE mapped_types)

(***************************************************************************)
(* parseIntersection: the merge of the members' props.                     *)
(***************************************************************************)
\* the assignments inside the props of one decomposed member
memberProps(node) ==
    Flatten([i \in 1..Len(node.properties) |->
                IF node.properties[i].name = "props"
                THEN node.properties[i].initializer.properties
                ELSE <<>>])

\* the first assignment of each name
RECURSIVE uniqueByName(_, _)
uniqueByName(assignments, unique) ==
    IF assignments = <<>> THEN <<>>
    ELSE IF Head(assignments).name \in unique
         THEN uniqueByName(Tail(assignments), unique)
         ELSE <<Head(assignments)>> \o
              uniqueByName(Tail(assignments), unique \cup {Head(assignments).name})

\* the merge without the reverse: the first member wins
combinedPropertiesInOrder(types) ==
    uniqueByName(Flatten([i \in 1..Len(types) |-> memberProps(types[i])]), {})

combinedProperties(types) ==
    LET reversed == Reverse(types)
    IN  uniqueByName(Flatten([i \in 1..Len(reversed) |-> memberProps(reversed[i])]), {})

typeDocs(type, additional) ==
    IF additional THEN parseJSDoc(type.docs \o type.aliasDocs) ELSE <<>>

intersectionNode(type, depth, additional, types) ==
    LET combined_properties == combinedProperties(types)
        properties_assignments ==
            IF depth > 1
            THEN <<createPropertyAssignment("type", StringLiteral("object")),
                   createPropertyAssignment("props", createObjectLiteral(combined_properties))>>
            ELSE combined_properties
    IN  createObjectLiteral(properties_assignments \o typeDocs(type, additional))

(***************************************************************************)
(* parseInterface: the eligible properties, the assignment built for one   *)
(* decomposed property, and the node built from the assignments.           *)
(***************************************************************************)
interfaceProperties(type) ==
    LET kept == Ascending({i \in DOMAIN type.props :
                                type.props[i].declared \/ type.props[i].hasType})
    IN  [j \in 1..Len(kept) |-> type.props[kept[j]]]

\* optional = declaration.questionToken ? true : false, undefined without a declaration
propertyOptional(property) == property.declared /\ property.question

\* the property docs added whatever additional is
propertyAssignmentWithDocs(property, parsed, additional) ==
    LET optional == propertyOptional(property)
        withOptional ==
            IF optional /\ hasProperties(parsed)
            THEN addProperty(parsed, "optional", TrueLiteral) ELSE parsed
        withDocs ==
            IF Len(property.docs) # 0 /\ hasProperties(withOptional)
            THEN addProperties(withOptional, parseJSDoc(property.docs)) ELSE withOptional
    IN  createPropertyAssignment(property.name, withDocs)

propertyAssignment(property, parsed, additional) ==
    LET optional == propertyOptional(property)
        withOptional ==
            IF optional /\ hasProperties(parsed)
            THEN addProperty(parsed, "optional", TrueLiteral) ELSE parsed
        withDocs ==
            IF additional /\ Len(property.docs) # 0 /\ hasProperties(withOptional)
            THEN addProperties(withOptional, parseJSDoc(property.docs)) ELSE withOptional
    IN  createPropertyAssignment(property.name, withDocs)

\* the wrapper from depth 1 on: the type argument is wrapped as well
interfaceNodeWrapped(type, depth, additional, optional, properties_assignments) ==
    IF Len(properties_assignments) = 0 THEN createObjectLiteral(<<>>)
    ELSE LET neasted_properties_assignments ==
                IF depth > 0
                THEN <<createPropertyAssignment("type", StringLiteral("object")),
                       createPropertyAssignment("props",
                            createObjectLiteral(properties_assignments))>>
                ELSE properties_assignments
         IN  createObjectLiteral(
                neasted_properties_assignments \o typeDocs(type, additional) \o
                (IF optional THEN <<OptionalAssignment>> ELSE <<>>))

interfaceNode(type, depth, additional, optional, properties_assignments) ==
    IF Len(properties_assignments) = 0 THEN createObjectLiteral(<<>>)
    ELSE LET neasted_properties_assignments ==
                IF depth > 1
                THEN <<createPropertyAssignment("type", StringLiteral("object")),
                       createPropertyAssignment("props",
                            createObjectLiteral(properties_assignments))>>
                ELSE properties_assignments
         IN  createObjectLiteral(
                neasted_properties_assignments \o typeDocs(type, additional) \o
                (IF optional THEN <<OptionalAssignment>> ELSE <<>>))

(***************************************************************************)
(* The decomposer as functions.  A call returns [st, node, history]: how   *)
(* it ended ("return", or the error thrown), the node returned and the     *)
(* content of the shared history array when it ended.  room is the number  *)
(* of activations the call stack still has room for.                       *)
(***************************************************************************)
NoNode == [k |-> "none"]

Returned(node, history) == [st |-> "return", node |-> node, history |-> history]

Thrown(error) == [st |-> error, node |-> NoNode, history |-> <<>>]

RECURSIVE parseType(_, _, _, _, _, _)
RECURSIVE parseArray(_, _, _, _, _)
RECURSIVE parseUnion(_, _, _, _, _, _)
RECURSIVE mapUnion(_, _, _, _, _, _, _)
RECURSIVE parseIntersection(_, _, _, _, _)
RECURSIVE mapIntersection(_, _, _, _, _, _, _)
RECURSIVE parseInterface(_, _, _, _, _, _)
RECURSIVE mapInterface(_, _, _, _, _, _, _)

parseType(id, depth, history, additional, optional, room) ==
    LET type == Types[id]
        flags == type.flags
        name == type.name
    IN  IF room = 0 THEN Thrown("RangeError")
        ELSE IF \/ HasFlag(flags, StringLike)
                \/ HasFlag(flags, NumberLike)
                \/ HasFlag(flags, BooleanLike)
                \/ flags = {"Any"}
        THEN Returned(parsePrimitive(type, optional), history)
        ELSE IF flags = {"Null"} \/ flags = {"Undefined"} \/ flags = {"Never"}
        THEN Returned(TypeNode("forbidden"), history)
        ELSE IF flags = {"Object"}
        THEN IF name \in DOMAIN predefined
             THEN Returned(TypeNode(predefined[name]), history)
             ELSE IF type.isArray
             THEN parseArray(id, depth + 1, history, optional, room - 1)
             ELSE IF type.index
             THEN Returned(TypeNode("object"), history)
             ELSE IF InHistory(history, name)
             THEN Returned(TypeNode("any"), history)
             ELSE parseInterface(id, depth + 1,
                    IF name # "__type" /\ name # "Array"
                    THEN Append(history, name) ELSE history,
                    additional, optional, room - 1)
        ELSE IF flags = {"Union"}
        THEN parseUnion(id, depth + 1, history, additional, optional, room - 1)
        ELSE IF flags = {"Intersection"}
        THEN parseIntersection(id, depth + 1, history, additional, room - 1)
        ELSE IF HasFlag(flags, EnumLike)
        THEN Returned(parseEnum(type, optional), history)
        ELSE Thrown("Unknown type")

\* the element type is decomposed without the additional and optional arguments
parseArray(id, depth, history, optional, room) ==
    LET type == Types[id]
    IN  IF type.hasTypeArguments
        THEN LET items == parseType(type.typeArguments[1], depth, history, FALSE, FALSE, room)
             IN  IF items.st # "return" THEN items
                 ELSE Returned(arrayNode(optional, TRUE, items.node), items.history)
        ELSE Returned(arrayNode(optional, FALSE, NoNode), history)

\* types.map of parseUnion from member i on; mapped_types holds the nodes so far
mapUnion(types, i, depth, history, additional, room, mapped_types) ==
    IF i > Len(types) THEN Returned(createArrayLiteral(mapped_types), history)
    ELSE IF isBooleanLiteral(types[i])
    THEN mapUnion(types, i + 1, depth, history, additional, room,
                  Append(mapped_types, TypeNode("boolean")))
    ELSE LET r == parseType(types[i], depth, history, additional, FALSE, room)
         IN  IF r.st # "return" THEN r
             ELSE mapUnion(types, i + 1, depth, r.history, additional, room,
                           Append(mapped_types, r.node))

parseUnion(id, depth, history, additional, optional, room) ==
    LET type == Types[id]
        types == unionTypes(type)
        opt == optional \/ unionOptional(type)
    IN  IF Len(types) = 1
        THEN IF isBooleanLiteral(types[1])
             THEN Returned(booleanNode(opt), history)
             ELSE parseType(types[1], depth, history, additional, opt, room)
        ELSE IF unionLiterals(types)
        THEN Returned(unionEnumNode(types, opt), history)
        ELSE LET r == mapUnion(types, 1, depth, history, additional, room, <<>>)
             IN  IF r.st # "return" THEN r
                 ELSE Returned(unionArray(r.node.elements, opt), r.history)

\* intersection_type.types.map from member i on
mapIntersection(members, i, depth, history, additional, room, types) ==
    IF i > Len(members) THEN Returned(createArrayLiteral(types), history)
    ELSE LET r == parseType(members[i], depth, history, additional, FALSE, room)
         IN  IF r.st # "return" THEN r
             ELSE mapIntersection(members, i + 1, depth, r.history, additional, room,
                                  Append(types, r.node))

parseIntersection(id, depth, history, additional, room) ==
    LET type == Types[id]
        r == mapIntersection(type.types, 1, depth, history, additional, room, <<>>)
    IN  IF r.st # "return" THEN r
        ELSE Returned(intersectionNode(type, depth, additional, r.node.elements), r.history)

\* properties.map from property i on: history.pop() ends each callback
mapInterface(properties, i, depth, history, additional, room, properties_assignments) ==
    IF i > Len(properties)
    THEN Returned(createObjectLiteral(properties_assignments), history)
    ELSE LET property == properties[i]
             r == parseType(property.type, depth, history, additional,
                            propertyOptional(property), room)
         IN  IF r.st # "return" THEN r
             ELSE mapInterface(properties, i + 1, depth, Pop(r.history), additional, room,
                    Append(properties_assignments,
                           propertyAssignment(property, r.node, additional)))

parseInterface(id, depth, history, additional, optional, room) ==
    LET type == Types[id]
        r == mapInterface(interfaceProperties(type), 1, depth, history, additional, room, <<>>)
    IN  IF r.st # "return" THEN r
        ELSE Returned(interfaceNode(type, depth, additional, optional, r.node.properties),
                      Pop(r.history))

(***************************************************************************)
(* The decomposer of transformer.ts, the source variant: no depth, no      *)
(* history, no additional and no optional argument.  A call returns        *)
(* [st, node] as above.                                                    *)
(***************************************************************************)
\* the texts of the model's doc tags that match /^\d+$/
DigitTexts == {"5", "1"}

ReturnedTs(node) == [st |-> "return", node |-> node]

ThrownTs(error) == [st |-> error, node |-> NoNode]

parsePrimitiveTs(type) == TypeNode(type.display)

parseEnumTs(type) ==
    createObjectLiteral(
        <<createPropertyAssignment("type", StringLiteral("enum")),
          createPropertyAssignment("values", createArrayLiteral(
            [i \in 1..Len(type.types) |-> Types[type.types[i]].value]))>>)

parseArrayTs == TypeNode("array")

\* the doc tags of a property, each with a text, appended to its node
docAssignmentsTs(docs) ==
    LET kept == Ascending({i \in DOMAIN docs : docs[i].text # ""})
    IN  [j \in 1..Len(kept) |->
            createPropertyAssignment(docs[kept[j]].name,
                IF docs[kept[j]].text = "true" \/ docs[kept[j]].text = "false"
                THEN createLiteral("boolean", docs[kept[j]].text)
                ELSE IF docs[kept[j]].text \in DigitTexts
                THEN createLiteral("number", docs[kept[j]].text)
                ELSE createLiteral("string", docs[kept[j]].text))]

propertyAssignmentTs(property, parsed) ==
    LET withOptional ==
            IF property.question /\ hasProperties(parsed)
            THEN createObjectLiteral(Append(parsed.properties, OptionalAssignment))
            ELSE parsed
        withDocs ==
            IF Len(property.docs) # 0 /\ hasProperties(withOptional)
            THEN createObjectLiteral(withOptional.properties \o docAssignmentsTs(property.docs))
            ELSE withOptional
    IN  createPropertyAssignment(property.name, withDocs)

\* the members of a union that are not undefined
unionTypesTs(type) ==
    LET kept == Ascending({i \in DOMAIN type.types :
                                Types[type.types[i]].display # "undefined"})
    IN  [j \in 1..Len(kept) |-> type.types[kept[j]]]

RECURSIVE parseTypeTs(_, _)
RECURSIVE mapUnionTs(_, _, _, _)
RECURSIVE mapIntersectionTs(_, _, _, _)
RECURSIVE mapInterfaceTs(_, _, _, _)

parseTypeTs(id, room) ==
    LET type == Types[id]
        flags == type.flags
    IN  IF room = 0 THEN ThrownTs("RangeError")
        ELSE IF \/ HasFlag(flags, StringLike)
                \/ HasFlag(flags, NumberLike)
                \/ HasFlag(flags, BooleanLike)
                \/ flags = {"Any"}
        THEN ReturnedTs(parsePrimitiveTs(type))
        ELSE IF flags = {"Null"} \/ flags = {"Undefined"}
        THEN ReturnedTs(createObjectLiteral(<<>>))
        ELSE IF flags = {"Object"} /\ type.objectFlags = "Interface"
        THEN mapInterfaceTs(interfaceProperties(type), 1, room - 1, <<>>)
        ELSE IF flags = {"Object"} /\ type.objectFlags = "Reference"
        THEN ReturnedTs(parseArrayTs)
        ELSE IF flags = {"Union"}
        THEN mapUnionTs(unionTypesTs(type), 1, room - 1, <<>>)
        ELSE IF flags = {"Intersection"}
        THEN mapIntersectionTs(type.types, 1, room - 1, <<>>)
        ELSE IF HasFlag(flags, EnumLike)
        THEN ReturnedTs(parseEnumTs(type))
        ELSE ReturnedTs(createObjectLiteral(<<>>))

\* parseUnion: the map over the filtered members, then the array literal
mapUnionTs(types, i, room, mapped) ==
    IF i > Len(types) THEN ReturnedTs(createArrayLiteral(mapped))
    ELSE IF isBooleanLiteral(types[i])
    THEN mapUnionTs(types, i + 1, room, Append(mapped, TypeNode("boolean")))
    ELSE LET r == parseTypeTs(types[i], room)
         IN  IF r.st # "return" THEN r
             ELSE mapUnionTs(types, i + 1, room, Append(mapped, r.node))

\* parseIntersection: the properties of every member, one after the other;
\* a member decomposed to an array literal has no properties to iterate
mapIntersectionTs(members, i, room, combined_properties) ==
    IF i > Len(members) THEN ReturnedTs(createObjectLiteral(combined_properties))
    ELSE LET r == parseTypeTs(members[i], room)
         IN  IF r.st # "return" THEN r
             ELSE IF ~hasProperties(r.node) THEN ThrownTs("TypeError")
             ELSE mapIntersectionTs(members, i + 1, room,
                                    combined_properties \o r.node.properties)

\* parseInterface: the map over the properties, then the object literal
mapInterfaceTs(properties, i, room, properties_assignments) ==
    IF i > Len(properties) THEN ReturnedTs(createObjectLiteral(properties_assignments))
    ELSE LET r == parseTypeTs(properties[i].type, room)
         IN  IF r.st # "return" THEN r
             ELSE mapInterfaceTs(properties, i + 1, room,
                    Append(properties_assignments,
                           propertyAssignmentTs(properties[i], r.node)))


(***************************************************************************)
(* The decomposer as a machine.                                            *)
(*   call     the matched call expression: its type argument (or none) and *)
(*            the intrinsic name of the type of its first argument         *)
(*   status   "visit" before visitNode, "run" while parseType runs,        *)
(*            "done" once the call is replaced, "error" once it has thrown *)
(*   stack    the activations of parseType and of the functions it         *)
(*            dispatches to, the running one last.  An activation keeps    *)
(*            its arguments, the number i of members it has handed to      *)
(*            parseType and the nodes acc it got back; entry records the   *)
(*            content of history when it was called                        *)
(*   history  the array created by visitNode and shared by all activations *)
(*   ret      the value the last return statement returned and the         *)
(*            activation that returned it, until the caller takes it       *)
(*   result   the node that replaces the call, or the error thrown         *)
(***************************************************************************)
VARIABLES call, status, stack, history, ret, result

(***************************************************************************)
(* The state of the traversal (visitNodeAndChildren):                      *)
(*   variant  the transformer that runs: "compiled" is part_000, "source"  *)
(*            is transformer.ts                                            *)
(*   file     the source file handed to the transformer                    *)
(*   visits   the activations of visitNodeAndChildren, the running one     *)
(*            last: origin is the node it was called with, node the value  *)
(*            visitNode returned for it, replaced whether visitNode took   *)
(*            the call for a schema call, i the number of children handed  *)
(*            to the visitor and acc the nodes the visitor returned        *)
(*   outcome  the file the transformer returns, or the error thrown        *)
(***************************************************************************)
VARIABLES variant, file, visits, outcome

treeVars == <<variant, file, visits, outcome>>

vars == <<call, status, stack, history, ret, result, variant, file, visits, outcome>>

Frame(fn, type, depth, additional, optional, entry) ==
    [fn |-> fn, type |-> type, depth |-> depth, additional |-> additional,
     optional |-> optional, entry |-> entry, i |-> 0, acc |-> <<>>]

NoFrame == Frame("none", "undefined", 0, FALSE, FALSE, <<>>)

NoRet == [node |-> NoNode, by |-> NoFrame]

NoResult == [st |-> "none", node |-> NoNode]

\* the type arguments and first arguments of the calls decomposed
CallArguments == {"none", "false", "true"}

Calls ==
    [hasTypeArguments : {TRUE}, typeArg : TypeIds, arg : CallArguments]
    \cup [hasTypeArguments : {FALSE}, typeArg : {"undefined"}, arg : CallArguments]

\* let additional = true, unless the first argument is the literal false
callAdditional(c) == ~(c.arg # "none" /\ c.arg = "false")

Init ==
    /\ call \in Calls
    /\ status = "visit"
    /\ stack = <<>>
    /\ history = <<>>
    /\ ret = NoRet
    /\ result = NoResult
    /\ variant = "compiled"
    /\ file = NoNode
    /\ visits = <<>>
    /\ outcome = [st |-> "off", node |-> NoNode]

Top == stack[Len(stack)]

Running(fn) == status = "run" /\ stack # <<>> /\ Top.fn = fn

\* the running activation returns node to its caller
Return(node) ==
    /\ stack' = SubSeq(stack, 1, Len(stack) - 1)
    /\ ret' = [node |-> node, by |-> Top]

\* the running activation goes on as frame (return f(...) of another function)
Become(frame) ==
    /\ stack' = [stack EXCEPT ![Len(stack)] = frame]
    /\ ret' = NoRet

\* the running activation calls parseType and waits for its value
Call(type, depth, additional, optional) ==
    /\ Len(stack) < MaxStack
    /\ stack' = Append([stack EXCEPT ![Len(stack)].i = @ + 1],
                       Frame("parseType", type, depth, additional, optional, history))
    /\ ret' = NoRet

\* the running activation takes the value returned to it into acc
Take(node) ==
    /\ stack' = [stack EXCEPT ![Len(stack)].acc = Append(@, node)]
    /\ ret' = NoRet

(* visitNode *)
VisitNodeNoTypeArguments ==
    /\ status = "visit"
    /\ ~call.hasTypeArguments
    /\ status' = "done"
    /\ result' = [st |-> "return", node |-> createObjectLiteral(<<>>)]
    /\ UNCHANGED <<call, stack, history, ret, treeVars>>

VisitNode ==
    /\ status = "visit"
    /\ call.hasTypeArguments
    /\ status' = "run"
    /\ history' = <<>>
    /\ stack' = <<Frame("parseType", call.typeArg, 0, callAdditional(call), FALSE, <<>>)>>
    /\ UNCHANGED <<call, ret, result, treeVars>>

\* parseType has returned to visitNode, which returns the node
VisitNodeReturn ==
    /\ status = "run"
    /\ stack = <<>>
    /\ status' = "done"
    /\ result' = [st |-> "return", node |-> ret.node]
    /\ UNCHANGED <<call, stack, history, ret, treeVars>>

(* parseType: one action for each rule of the dispatch *)
isPrimitive(flags) ==
    \/ HasFlag(flags, StringLike)
    \/ HasFlag(flags, NumberLike)
    \/ HasFlag(flags, BooleanLike)
    \/ flags = {"Any"}

isForbidden(flags) == flags = {"Null"} \/ flags = {"Undefined"} \/ flags = {"Never"}

\* the object type reaches the rule after the predefined, array and index rules
isPlainObject(type) ==
    /\ type.flags = {"Object"}
    /\ type.name \notin DOMAIN predefined
    /\ ~type.isArray
    /\ ~type.index

\* no rule before the union rule applies
pastObject(flags) == ~isPrimitive(flags) /\ ~isForbidden(flags) /\ flags # {"Object"}

ParseTypePrimitive ==
    /\ Running("parseType")
    /\ isPrimitive(Types[Top.type].flags)
    /\ Return(parsePrimitive(Types[Top.type], Top.optional))
    /\ UNCHANGED <<call, status, history, result, treeVars>>

ParseTypeForbidden ==
    /\ Running("parseType")
    /\ ~isPrimitive(Types[Top.type].flags)
    /\ isForbidden(Types[Top.type].flags)
    /\ Return(TypeNode("forbidden"))
    /\ UNCHANGED <<call, status, history, result, treeVars>>

ParseTypePredefined ==
    /\ Running("parseType")
    /\ Types[Top.type].flags = {"Object"}
    /\ Types[Top.type].name \in DOMAIN predefined
    /\ Return(TypeNode(predefined[Types[Top.type].name]))
    /\ UNCHANGED <<call, status, history, result, treeVars>>

\* the array test ahead of the table of predefined names
ParseTypeArrayFirst ==
    /\ Running("parseType")
    /\ Types[Top.type].flags = {"Object"}
    /\ Types[Top.type].isArray
    /\ Become(Frame("parseArray", Top.type, Top.depth + 1, FALSE, Top.optional, history))
    /\ UNCHANGED <<call, status, history, result, treeVars>>

ParseTypeArray ==
    /\ Running("parseType")
    /\ Types[Top.type].flags = {"Object"}
    /\ Types[Top.type].name \notin DOMAIN predefined
    /\ Types[Top.type].isArray
    /\ Become(Frame("parseArray", Top.type, Top.depth + 1, FALSE, Top.optional, history))
    /\ UNCHANGED <<call, status, history, result, treeVars>>

ParseTypeIndexed ==
    /\ Running("parseType")
    /\ Types[Top.type].flags = {"Object"}
    /\ Types[Top.type].name \notin DOMAIN predefined
    /\ ~Types[Top.type].isArray
    /\ Types[Top.type].index
    /\ Return(TypeNode("object"))
    /\ UNCHANGED <<call, status, history, result, treeVars>>

ParseTypeInHistory ==
    /\ Running("parseType")
    /\ isPlainObject(Types[Top.type])
    /\ InHistory(history, Types[Top.type].name)
    /\ Return(TypeNode("any"))
    /\ UNCHANGED <<call, status, history, result, treeVars>>

ParseTypeInterface ==
    /\ Running("parseType")
    /\ isPlainObject(Types[Top.type])
    /\ ~InHistory(history, Types[Top.type].name)
    /\ history' = IF Types[Top.type].name # "__type" /\ Types[Top.type].name # "Array"
                  THEN Append(history, Types[Top.type].name) ELSE history
    /\ Become(Frame("parseInterface", Top.type, Top.depth + 1, Top.additional,
                    Top.optional, history'))
    /\ UNCHANGED <<call, status, result, treeVars>>

ParseTypeUnion ==
    /\ Running("parseType")
    /\ pastObject(Types[Top.type].flags)
    /\ Types[Top.type].flags = {"Union"}
    /\ Become(Frame("parseUnion", Top.type, Top.depth + 1, Top.additional,
                    Top.optional, history))
    /\ UNCHANGED <<call, status, history, result, treeVars>>

ParseTypeIntersection ==
    /\ Running("parseType")
    /\ pastObject(Types[Top.type].flags)
    /\ Types[Top.type].flags = {"Intersection"}
    /\ Become(Frame("parseIntersection", Top.type, Top.depth + 1, Top.additional,
                    FALSE, history))
    /\ UNCHANGED <<call, status, history, result, treeVars>>

ParseTypeEnum ==
    /\ Running("parseType")
    /\ pastObject(Types[Top.type].flags)
    /\ Types[Top.type].flags # {"Union"}
    /\ Types[Top.type].flags # {"Intersection"}
    /\ HasFlag(Types[Top.type].flags, EnumLike)
    /\ Return(parseEnum(Types[Top.type], Top.optional))
    /\ UNCHANGED <<call, status, history, result, treeVars>>

\* throw new Error("Unknown type"): no activation catches it
ParseTypeUnknown ==
    /\ Running("parseType")
    /\ pastObject(Types[Top.type].flags)
    /\ Types[Top.type].flags # {"Union"}
    /\ Types[Top.type].flags # {"Intersection"}
    /\ ~HasFlag(Types[Top.type].flags, EnumLike)
    /\ status' = "error"
    /\ result' = [st |-> "Unknown type", node |-> NoNode]
    /\ stack' = <<>>
    /\ ret' = NoRet
    /\ UNCHANGED <<call, history, treeVars>>

(* parseArray *)
ParseArrayItems ==
    /\ Running("parseArray")
    /\ ret = NoRet
    /\ Types[Top.type].hasTypeArguments
    /\ Top.i = 0
    /\ Call(Types[Top.type].typeArguments[1], Top.depth, FALSE, FALSE)
    /\ UNCHANGED <<call, status, history, result, treeVars>>

ParseArrayReturn ==
    /\ Running("parseArray")
    /\ ret # NoRet
    /\ Return(arrayNode(Top.optional, TRUE, ret.node))
    /\ UNCHANGED <<call, status, history, result, treeVars>>

ParseArrayBare ==
    /\ Running("parseArray")
    /\ ret = NoRet
    /\ ~Types[Top.type].hasTypeArguments
    /\ Return(arrayNode(Top.optional, FALSE, NoNode))
    /\ UNCHANGED <<call, status, history, result, treeVars>>

(* parseUnion *)
TopTypes == unionTypes(Types[Top.type])

\* the optional of parseUnion without the undefined member of the union
TopOptionalArgument == Top.optional

TopOptional == Top.optional \/ unionOptional(Types[Top.type])

\* more than one member is left and they are not all literals
TopMaps == Len(TopTypes) # 1 /\ ~unionLiterals(TopTypes)

ParseUnionBoolean ==
    /\ Running("parseUnion")
    /\ Len(TopTypes) = 1
    /\ isBooleanLiteral(TopTypes[1])
    /\ Return(booleanNode(TopOptional))
    /\ UNCHANGED <<call, status, history, result, treeVars>>

ParseUnionSingle ==
    /\ Running("parseUnion")
    /\ ret = NoRet
    /\ Len(TopTypes) = 1
    /\ ~isBooleanLiteral(TopTypes[1])
    /\ Top.i = 0
    /\ Call(TopTypes[1], Top.depth, Top.additional, TopOptional)
    /\ UNCHANGED <<call, status, history, result, treeVars>>

ParseUnionSingleReturn ==
    /\ Running("parseUnion")
    /\ ret # NoRet
    /\ Len(TopTypes) = 1
    /\ Return(ret.node)
    /\ UNCHANGED <<call, status, history, result, treeVars>>

ParseUnionLiterals ==
    /\ Running("parseUnion")
    /\ Len(TopTypes) # 1
    /\ unionLiterals(TopTypes)
    /\ Return(unionEnumNode(TopTypes, TopOptional))
    /\ UNCHANGED <<call, status, history, result, treeVars>>

ParseUnionMapBoolean ==
    /\ Running("parseUnion")
    /\ ret = NoRet
    /\ TopMaps
    /\ Top.i < Len(TopTypes)
    /\ isBooleanLiteral(TopTypes[Top.i + 1])
    /\ stack' = [stack EXCEPT ![Len(stack)].i = @ + 1,
                              ![Len(stack)].acc = Append(@, TypeNode("boolean"))]
    /\ UNCHANGED <<call, status, history, ret, result, treeVars>>

ParseUnionMapMember ==
    /\ Running("parseUnion")
    /\ ret = NoRet
    /\ TopMaps
    /\ Top.i < Len(TopTypes)
    /\ ~isBooleanLiteral(TopTypes[Top.i + 1])
    /\ Call(TopTypes[Top.i + 1], Top.depth, Top.additional, FALSE)
    /\ UNCHANGED <<call, status, history, result, treeVars>>

ParseUnionMapReturn ==
    /\ Running("parseUnion")
    /\ ret # NoRet
    /\ TopMaps
    /\ Take(ret.node)
    /\ UNCHANGED <<call, status, history, result, treeVars>>

ParseUnionEnd ==
    /\ Running("parseUnion")
    /\ ret = NoRet
    /\ TopMaps
    /\ Top.i = Len(TopTypes)
    /\ Return(unionArray(Top.acc, TopOptional))
    /\ UNCHANGED <<call, status, history, result, treeVars>>

(* parseIntersection *)
ParseIntersectionMember ==
    /\ Running("parseIntersection")
    /\ ret = NoRet
    /\ Top.i < Len(Types[Top.type].types)
    /\ Call(Types[Top.type].types[Top.i + 1], Top.depth, Top.additional, FALSE)
    /\ UNCHANGED <<call, status, history, result, treeVars>>

ParseIntersectionReturn ==
    /\ Running("parseIntersection")
    /\ ret # NoRet
    /\ Take(ret.node)
    /\ UNCHANGED <<call, status, history, result, treeVars>>

ParseIntersectionEnd ==
    /\ Running("parseIntersection")
    /\ ret = NoRet
    /\ Top.i = Len(Types[Top.type].types)
    /\ Return(intersectionNode(Types[Top.type], Top.depth, Top.additional, Top.acc))
    /\ UNCHANGED <<call, status, history, result, treeVars>>

(* parseInterface *)
TopProperties == interfaceProperties(Types[Top.type])

ParseInterfaceProperty ==
    /\ Running("parseInterface")
    /\ ret = NoRet
    /\ Top.i < Len(TopProperties)
    /\ Call(TopProperties[Top.i + 1].type, Top.depth, Top.additional,
            propertyOptional(TopProperties[Top.i + 1]))
    /\ UNCHANGED <<call, status, history, result, treeVars>>

\* the rest of the map callback, from the value of parseType to history.pop()
ParseInterfaceReturn ==
    /\ Running("parseInterface")
    /\ ret # NoRet
    /\ Take(propertyAssignment(TopProperties[Top.i], ret.node, Top.additional))
    /\ history' = Pop(history)
    /\ UNCHANGED <<call, status, result, treeVars>>

\* after the map: the empty literal or the node, and history.pop() in both
ParseInterfaceEnd ==
    /\ Running("parseInterface")
    /\ ret = NoRet
    /\ Top.i = Len(TopProperties)
    /\ Return(interfaceNode(Types[Top.type], Top.depth, Top.additional, Top.optional, Top.acc))
    /\ history' = Pop(history)
    /\ UNCHANGED <<call, status, result, treeVars>>

(* the call stack is full when the running activation calls parseType *)
WantsCall ==
    /\ status = "run"
    /\ stack # <<>>
    /\ ret = NoRet
    /\ \/ Top.fn = "parseArray" /\ Types[Top.type].hasTypeArguments /\ Top.i = 0
       \/ Top.fn = "parseUnion" /\ Len(TopTypes) = 1 /\ ~isBooleanLiteral(TopTypes[1]) /\ Top.i = 0
       \/ Top.fn = "parseUnion" /\ TopMaps /\ Top.i < Len(TopTypes)
            /\ ~isBooleanLiteral(TopTypes[Top.i + 1])
       \/ Top.fn = "parseIntersection" /\ Top.i < Len(Types[Top.type].types)
       \/ Top.fn = "parseInterface" /\ Top.i < Len(TopProperties)

StackOverflow ==
    /\ WantsCall
    /\ Len(stack) >= MaxStack
    /\ status' = "error"
    /\ result' = [st |-> "RangeError", node |-> NoNode]
    /\ stack' = <<>>
    /\ ret' = NoRet
    /\ UNCHANGED <<call, history, treeVars>>

Next ==
    \/ VisitNodeNoTypeArguments
    \/ VisitNode
    \/ VisitNodeReturn
    \/ ParseTypePrimitive
    \/ ParseTypeForbidden
    \/ ParseTypePredefined
    \/ ParseTypeArray
    \/ ParseTypeIndexed
    \/ ParseTypeInHistory
    \/ ParseTypeInterface
    \/ ParseTypeUnion
    \/ ParseTypeIntersection
    \/ ParseTypeEnum
    \/ ParseTypeUnknown
    \/ ParseArrayItems
    \/ ParseArrayReturn
    \/ ParseArrayBare
    \/ ParseUnionBoolean
    \/ ParseUnionSingle
    \/ ParseUnionSingleReturn
    \/ ParseUnionLiterals
    \/ ParseUnionMapBoolean
    \/ ParseUnionMapMember
    \/ ParseUnionMapReturn
    \/ ParseUnionEnd
    \/ ParseIntersectionMember
    \/ ParseIntersectionReturn
    \/ ParseIntersectionEnd
    \/ ParseInterfaceProperty
    \/ ParseInterfaceReturn
    \/ ParseInterfaceEnd
    \/ StackOverflow

Spec == Init /\ [][Next]_vars

(***************************************************************************)
(* The machine and the functions agree: the value an activation returns is *)
(* the value of the function on the activation's arguments.                *)
(***************************************************************************)
\* the value of the function frame runs, called with history as frame.entry
valueOf(frame, room) ==
    IF frame.fn = "parseType"
    THEN parseType(frame.type, frame.depth, frame.entry, frame.additional, frame.optional, room)
    ELSE IF frame.fn = "parseArray"
    THEN parseArray(frame.type, frame.depth, frame.entry, frame.optional, room - 1)
    ELSE IF frame.fn = "parseUnion"
    THEN parseUnion(frame.type, frame.depth, frame.entry, frame.additional, frame.optional, room - 1)
    ELSE IF frame.fn = "parseIntersection"
    THEN parseIntersection(frame.type, frame.depth, frame.entry, frame.additional, room - 1)
    ELSE parseInterface(frame.type, frame.depth, frame.entry, frame.additional, frame.optional, room - 1)

ReturnAgrees ==
    ret # NoRet =>
        LET v == valueOf(ret.by, MaxStack - Len(stack))
        IN  v.st = "return" /\ v.node = ret.node /\ v.history = history

ResultAgrees ==
    status \in {"done", "error"} /\ call.hasTypeArguments =>
        LET v == parseType(call.typeArg, 0, <<>>, callAdditional(call), FALSE, MaxStack)
        IN  v.st = result.st /\ v.node = result.node

(***************************************************************************)
(* The traversal of a source file (transformer, visitNodeAndChildren,      *)
(* visitNode and isKeysCallExpression of both variants).  A syntax node is *)
(* a record with its kind k; the nodes the decomposer creates are the      *)
(* object, array and literal records above, and a property assignment is   *)
(* the record without k.                                                   *)
(***************************************************************************)
Identifier(text) == [k |-> "Identifier", text |-> text]

TypeReference(type) == [k |-> "TypeReference", type |-> type]

Keyword(kind) == [k |-> kind]

SyntaxNode(kind, children) == [k |-> kind, children |-> children]

\* what getResolvedSignature answers for a call
Signature(name) ==
    [resolved |-> TRUE, declared |-> TRUE, jsdoc |-> FALSE, named |-> TRUE, name |-> name]

Unresolved ==
    [resolved |-> FALSE, declared |-> FALSE, jsdoc |-> FALSE, named |-> FALSE, name |-> ""]

JSDocSignature(name) ==
    [resolved |-> TRUE, declared |-> TRUE, jsdoc |-> TRUE, named |-> TRUE, name |-> name]

\* the intrinsic name of the type of the first argument of a call
firstArgument(arguments) ==
    IF arguments = <<>> THEN "none"
    ELSE IF arguments[1].k = "FalseKeyword" THEN "false"
    ELSE IF arguments[1].k = "TrueKeyword" THEN "true"
    ELSE "other"

CallExpression(callee, signature, typeArguments, arguments) ==
    [k |-> "CallExpression",
     signature |-> signature,
     hasTypeArguments |-> typeArguments # <<>>,
     typeArg |-> IF typeArguments # <<>> THEN typeArguments[1].type ELSE "undefined",
     arg |-> firstArgument(arguments),
     children |-> <<Identifier(callee)>> \o typeArguments \o arguments]

SchemaCall(type, arguments) ==
    CallExpression("schema", Signature("schema"), <<TypeReference(type)>>, arguments)

Statement(expression) == SyntaxNode("ExpressionStatement", <<expression>>)

SourceFile(statements) == SyntaxNode("SourceFile", statements)

Files ==
    { SourceFile(<<Statement(SchemaCall(t, a))>>) :
        t \in TypeIds, a \in {<<>>, <<Keyword("FalseKeyword")>>} }
    \cup
    { SourceFile(<<
        Statement(CallExpression("other", Signature("other"), <<>>,
                                 <<SchemaCall("Pair", <<Keyword("TrueKeyword")>>)>>)),
        Statement(CallExpression("schema", Signature("schema"), <<>>, <<>>)),
        Statement(CallExpression("schema", JSDocSignature("schema"),
                                 <<TypeReference("Pair")>>, <<>>)),
        Statement(CallExpression("schema", Unresolved, <<TypeReference("Pair")>>, <<>>)),
        Statement(CallExpression("schema",
                                 [Signature("") EXCEPT !.named = FALSE],
                                 <<TypeReference("Pair")>>, <<>>)),
        Statement(CallExpression("schema",
                                 [Signature("schema") EXCEPT !.declared = FALSE],
                                 <<TypeReference("Pair")>>, <<>>)) >>),
      SourceFile(<<
        Statement(SchemaCall("Other", <<SchemaCall("Pair", <<>>)>>)),
        Statement(SchemaCall("string", <<>>)) >>),
      SourceFile(<<
        Statement(SchemaCall("U_Pair", <<>>)),
        Statement(SchemaCall("void", <<>>)) >>) }

isKeysCallExpression(node) ==
    /\ "k" \in DOMAIN node
    /\ node.k = "CallExpression"
    /\ node.signature.resolved
    /\ node.signature.declared
    /\ ~node.signature.jsdoc
    /\ node.signature.named
    /\ node.signature.name = "schema"

\* the children ts.visitEachChild hands to the visitor, in order
Children(node) ==
    IF "k" \notin DOMAIN node THEN <<Identifier(node.name), node.initializer>>
    ELSE IF node.k = "obj" THEN node.properties
    ELSE IF node.k = "arr" THEN node.elements
    ELSE IF "children" \in DOMAIN node THEN node.children
    ELSE <<>>

\* the node ts.visitEachChild returns for the visited children
WithChildren(node, visited) ==
    IF "k" \notin DOMAIN node
    THEN createPropertyAssignment(visited[1].text, visited[2])
    ELSE IF node.k = "obj" THEN createObjectLiteral(visited)
    ELSE IF node.k = "arr" THEN createArrayLiteral(visited)
    ELSE IF "children" \in DOMAIN node THEN [node EXCEPT !.children = visited]
    ELSE node

Visit(origin, node, replaced) ==
    [origin |-> origin, node |-> node, replaced |-> replaced, i |-> 0, acc |-> <<>>]

TreeInit ==
    /\ call = [hasTypeArguments |-> FALSE, typeArg |-> "undefined", arg |-> "none"]
    /\ status = "off"
    /\ stack = <<>>
    /\ history = <<>>
    /\ ret = NoRet
    /\ result = NoResult
    /\ variant \in {"compiled", "source"}
    /\ file \in Files
    /\ visits = <<>>
    /\ outcome = [st |-> "none", node |-> NoNode]

Current == visits[Len(visits)]

\* the nodes the running activation hands to the visitor: the children of
\* the value of visitNode(node)
\* the children of the node the activation was called with
eachChildOfOrigin == Children(Current.origin)

eachChild == Children(Current.node)

\* visitNodeAndChildren is about to be called
Pending ==
    /\ outcome.st = "none"
    /\ IF visits = <<>> THEN TRUE ELSE Current.i < Len(eachChild)

\* the node it is called with
Target == IF visits = <<>> THEN file ELSE eachChild[Current.i + 1]

Enter(activation) ==
    visits' = IF visits = <<>> THEN <<activation>>
              ELSE Append([visits EXCEPT ![Len(visits)].i = @ + 1], activation)

(* visitNode returns the node itself *)
VisitOther ==
    /\ Pending
    /\ ~isKeysCallExpression(Target)
    /\ Enter(Visit(Target, Target, FALSE))
    /\ UNCHANGED <<call, status, stack, history, ret, result, variant, file, outcome>>

(* part_000: visitNode takes the call for a schema call; the actions of    *)
(* visitNode and parseType above run on it                                 *)
VisitSchema ==
    /\ Pending
    /\ variant = "compiled"
    /\ status = "off"
    /\ isKeysCallExpression(Target)
    /\ call' = [hasTypeArguments |-> Target.hasTypeArguments,
                typeArg |-> Target.typeArg, arg |-> Target.arg]
    /\ status' = "visit"
    /\ result' = NoResult
    /\ UNCHANGED <<stack, history, ret, variant, file, visits, outcome>>

(* part_000: visitNode has returned the node, whose children are visited *)
VisitSchemaReturn ==
    /\ Pending
    /\ variant = "compiled"
    /\ status = "done"
    /\ Enter(Visit(Target, result.node, TRUE))
    /\ status' = "off"
    /\ UNCHANGED <<call, stack, history, ret, result, variant, file, outcome>>

(* part_000: parseType has thrown, and nothing catches the error *)
VisitSchemaThrows ==
    /\ Pending
    /\ variant = "compiled"
    /\ status = "error"
    /\ outcome' = [st |-> result.st, node |-> NoNode]
    /\ visits' = <<>>
    /\ status' = "off"
    /\ UNCHANGED <<call, stack, history, ret, result, variant, file>>

(* transformer.ts: visitNode returns an empty object literal *)
VisitSourceNoTypeArguments ==
    /\ Pending
    /\ variant = "source"
    /\ isKeysCallExpression(Target)
    /\ ~Target.hasTypeArguments
    /\ Enter(Visit(Target, createObjectLiteral(<<>>), TRUE))
    /\ UNCHANGED <<call, status, stack, history, ret, result, variant, file, outcome>>

(* transformer.ts: visitNode returns the value of parseType *)
VisitSource ==
    /\ Pending
    /\ variant = "source"
    /\ isKeysCallExpression(Target)
    /\ Target.hasTypeArguments
    /\ parseTypeTs(Target.typeArg, MaxStack).st = "return"
    /\ Enter(Visit(Target, parseTypeTs(Target.typeArg, MaxStack).node, TRUE))
    /\ UNCHANGED <<call, status, stack, history, ret, result, variant, file, outcome>>

(* transformer.ts: parseType throws, and nothing catches the error *)
VisitSourceThrows ==
    /\ Pending
    /\ variant = "source"
    /\ isKeysCallExpression(Target)
    /\ Target.hasTypeArguments
    /\ parseTypeTs(Target.typeArg, MaxStack).st # "return"
    /\ outcome' = [st |-> parseTypeTs(Target.typeArg, MaxStack).st, node |-> NoNode]
    /\ visits' = <<>>
    /\ UNCHANGED <<call, status, stack, history, ret, result, variant, file>>

(* ts.visitEachChild returns to the visitor call of the parent *)
VisitEachChildReturn ==
    /\ outcome.st = "none"
    /\ Len(visits) > 1
    /\ Current.i = Len(eachChild)
    /\ visits' = [SubSeq(visits, 1, Len(visits) - 1) EXCEPT
                    ![Len(visits) - 1].acc = Append(@, WithChildren(Current.node, Current.acc))]
    /\ UNCHANGED <<call, status, stack, history, ret, result, variant, file, outcome>>

(* ts.visitEachChild returns the file to the transformer *)
TransformerReturn ==
    /\ outcome.st = "none"
    /\ Len(visits) = 1
    /\ Current.i = Len(eachChild)
    /\ outcome' = [st |-> "return", node |-> WithChildren(Current.node, Current.acc)]
    /\ visits' = <<>>
    /\ UNCHANGED <<call, status, stack, history, ret, result, variant, file>>

TreeNext ==
    \/ VisitOther
    \/ VisitSchema
    \/ VisitSchemaReturn
    \/ VisitSchemaThrows
    \/ VisitSourceNoTypeArguments
    \/ VisitSource
    \/ VisitSourceThrows
    \/ VisitEachChildReturn
    \/ TransformerReturn
    \/ Next

TreeSpec == TreeInit /\ [][TreeNext]_vars

(***************************************************************************)
(* Claims about the decomposer (parseType of the compiled transformer).    *)
(***************************************************************************)
\* the activations of parseInterface on the stack, outermost first
InterfaceFrames == Ascending({i \in DOMAIN stack : stack[i].fn = "parseInterface"})

\* the names parseType pushes for the object types being decomposed on the
\* recursion path, in entry order
PathNames ==
    LET named == Ascending({i \in DOMAIN stack :
                    /\ stack[i].fn = "parseInterface"
                    /\ Types[stack[i].type].name \notin {"__type", "Array"}})
    IN  [j \in 1..Len(named) |-> Types[stack[named[j]].type].name]

\* C1: on every finite type graph with object types that refer to themselves
\* or to each other, wherever the referring property stands, the
\* decomposition terminates (the call stack never overflows) and an object
\* type that is being decomposed on the recursion path is never entered
\* again: a reference to it becomes {type:"any"}.
C1_CyclesAreCutEverywhere ==
    /\ result.st # "RangeError"
    /\ \A i, j \in DOMAIN stack :
          (/\ i < j
           /\ stack[i].fn = "parseInterface"
           /\ stack[j].fn = "parseInterface")
          => stack[i].type # stack[j].type

\* C10: at every point of a decomposition history holds exactly the names of
\* the named object types being decomposed on the recursion path, in entry
\* order: pushed on entry, kept while the properties are decomposed, popped
\* when the type's subtree is complete.
C10_HistoryIsThePath == status = "run" => history = PathNames

\* the first n assignments of an object literal carry the names, in order,
\* and each holds a decomposed node
EntriesAre(properties, names) ==
    /\ Len(properties) >= Len(names)
    /\ \A i \in DOMAIN names :
          /\ properties[i].name = names[i]
          /\ properties[i].initializer.k \in {"obj", "arr"}

ReturnedInterface ==
    /\ ret # NoRet
    /\ ret.by.fn = "parseInterface"
    /\ Len(interfaceProperties(Types[ret.by.type])) > 0

\* C2: an object type with at least one property is emitted flat (its
\* property entries, no type/props wrapper) exactly when it is the type
\* argument of the matched call (depth <= 1), and as
\* {type:"object", props:{...}} when it is reached deeper: as a property's
\* type, an array's element type or a union member.
C2_FlatExactlyAtTopLevel ==
    ReturnedInterface =>
        LET properties == interfaceProperties(Types[ret.by.type])
            names == [i \in 1..Len(properties) |-> properties[i].name]
            atTop == stack = <<>> /\ ret.by.type = call.typeArg
            entries == ret.node.properties
        IN  /\ atTop <=> ret.by.depth <= 1
            /\ atTop =>
                /\ EntriesAre(entries, names)
                /\ \A i \in DOMAIN entries : entries[i].name \notin {"type", "props"}
            /\ ~atTop =>
                /\ Len(entries) >= 2
                /\ entries[1] = createPropertyAssignment("type", StringLiteral("object"))
                /\ entries[2].name = "props"
                /\ entries[2].initializer.k = "obj"
                /\ Len(entries[2].initializer.properties) = Len(names)
                /\ EntriesAre(entries[2].initializer.properties, names)

\* C2 witness: Pair, decomposed as the element type of an array, returns
\* wrapped to parseArray
C2_Witness ==
    /\ ReturnedInterface
    /\ ret.by.type = "Pair"
    /\ ret.by.depth > 1
    /\ stack # <<>>
    /\ Top.fn = "parseArray"
    /\ ret.node.properties[1].name = "type"

MarkerNames == {"IDate", "IEmail", "IForbidden", "IUrl", "IUUID"}

MarkerKind(name) ==
    CASE name = "IDate" -> "date"
      [] name = "IEmail" -> "email"
      [] name = "IForbidden" -> "forbidden"
      [] name = "IUrl" -> "url"
      [] name = "IUUID" -> "uuid"

isMarker(id) == Types[id].flags = {"Object"} /\ Types[id].name \in MarkerNames

\* C6: an object type named IDate, IEmail, IForbidden, IUrl or IUUID
\* decomposes to the node {type: "date" | "email" | "forbidden" | "url" |
\* "uuid"} and nothing else (no props, no items), whatever its properties,
\* array-ness, index signature, depth and the content of history; it is
\* never handed to parseArray or parseInterface and its name is never pushed.
C6_MarkersAreFixed ==
    /\ \A i \in DOMAIN stack : isMarker(stack[i].type) => stack[i].fn = "parseType"
    /\ \A i \in DOMAIN history : history[i] \notin MarkerNames
    /\ (ret # NoRet /\ isMarker(ret.by.type)) =>
          /\ ret.node.k = "obj"
          /\ Len(ret.node.properties) = 1
          /\ ret.node.properties[1].name = "type"
          /\ ret.node.properties[1].initializer =
                createLiteral("string", MarkerKind(Types[ret.by.type].name))
          /\ history = ret.by.entry

\* C6 witness: IDate, which has a property, returns {type:"date"} below the
\* top level while history holds a name
C6_Witness ==
    /\ ret # NoRet
    /\ ret.by.type = "IDate"
    /\ ret.by.depth > 0
    /\ history # <<>>
    /\ ret.node = TypeNode("date")

\* the same assignments, each as often, in any order
SameEntries(a, b) ==
    /\ Len(a) = Len(b)
    /\ \A i \in DOMAIN a :
          Cardinality({j \in DOMAIN a : a[j] = a[i]}) =
          Cardinality({j \in DOMAIN b : b[j] = a[i]})

\* parseUnion has returned for a union that holds undefined and leaves one member
ReturnedOptionalOf ==
    /\ ret # NoRet
    /\ ret.by.fn = "parseUnion"
    /\ Len(unionTypes(Types[ret.by.type])) = 1
    /\ unionOptional(Types[ret.by.type])

\* the member left, and its decomposition in the same place (depth, history,
\* additional) without the optional flag; a boolean literal left stands for
\* the type boolean
OnlyMember == unionTypes(Types[ret.by.type])[1]

OnlyMemberAlone ==
    parseType(IF isBooleanLiteral(OnlyMember) THEN "boolean" ELSE OnlyMember,
              ret.by.depth, ret.by.entry, ret.by.additional, FALSE,
              MaxStack - Len(stack) - 1)

AttachesOptional(id, entry) ==
    LET type == Types[id]
    IN  \/ isPrimitive(type.flags)
        \/ /\ type.flags = {"Object"}
           /\ type.name \notin MarkerNames
           /\ type.isArray
        \/ /\ type.flags = {"Object"}
           /\ type.name \notin MarkerNames
           /\ ~type.isArray
           /\ ~type.index
           /\ ~InHistory(entry, type.name)
           /\ \E i \in DOMAIN type.props : type.props[i].declared \/ type.props[i].hasType
        \/ /\ ~isPrimitive(type.flags)
           /\ ~isForbidden(type.flags)
           /\ type.flags \notin {{"Object"}, {"Union"}, {"Intersection"}}
           /\ HasFlag(type.flags, EnumLike)

MemberNames(id) ==
    {interfaceProperties(Types[id])[i].name : i \in DOMAIN interfaceProperties(Types[id])}

\* an intersection of object types handled by the interface rule, decomposed
\* as the type argument of the call
TopLevelIntersection ==
    /\ status = "done"
    /\ call.hasTypeArguments
    /\ Types[call.typeArg].flags = {"Intersection"}
    /\ \A i \in DOMAIN Types[call.typeArg].types :
          isPlainObject(Types[Types[call.typeArg].types[i]])

\* the entry of name in the decomposition of member i of the intersection
MemberEntry(i, name) ==
    LET node == parseType(Types[call.typeArg].types[i], 1, <<>>, callAdditional(call),
                          FALSE, MaxStack - 1).node
        props == node.properties[2].initializer.properties
    IN  props[CHOOSE k \in DOMAIN props : props[k].name = name]

\* C4: an intersection of object types decomposed at top level yields a flat
\* mapping with exactly one entry for each property name of any member; the
\* entry of a name is the one of the latest member that has the name, so
\* {a: A} & {b: B} yields {a: decompose(A), b: decompose(B)}.
C4_IntersectionLastMemberWins ==
    TopLevelIntersection =>
        LET members == Types[call.typeArg].types
            names == UNION {MemberNames(members[i]) : i \in DOMAIN members}
            entries == result.node.properties
            latest(name) == CHOOSE i \in DOMAIN members :
                                /\ name \in MemberNames(members[i])
                                /\ \A j \in DOMAIN members :
                                      name \in MemberNames(members[j]) => j <= i
        IN  /\ result.st = "return"
            /\ result.node.k = "obj"
            /\ \A name \in names :
                  /\ Cardinality({k \in DOMAIN entries : entries[k].name = name}) = 1
                  /\ \A k \in DOMAIN entries :
                        entries[k].name = name =>
                            entries[k] = MemberEntry(latest(name), name)
            /\ \A k \in DOMAIN entries :
                  entries[k].name \in names \/ entries[k].initializer.k = "lit"

\* C4 witness: Pair & Other is decomposed; b, which both have, is Other's
C4_Witness ==
    /\ TopLevelIntersection
    /\ call.typeArg = "PairOther"
    /\ \E k \in DOMAIN result.node.properties :
          /\ result.node.properties[k].name = "b"
          /\ result.node.properties[k].initializer = TypeNode("string")

\* parseUnion has returned for a union that leaves two or more members, not
\* all of them literals
ReturnedAlternatives ==
    /\ ret # NoRet
    /\ ret.by.fn = "parseUnion"
    /\ Len(unionTypes(Types[ret.by.type])) >= 2
    /\ ~unionLiterals(unionTypes(Types[ret.by.type]))

\* parseType has returned the node of a member to such a parseUnion
ReturnedAlternative ==
    /\ ret # NoRet
    /\ status = "run"
    /\ stack # <<>>
    /\ Top.fn = "parseUnion"
    /\ TopMaps

\* C5: a union that leaves two or more members, not all literals, yields a
\* sequence with one element per surviving member, in member order; element
\* i is the decomposition of member i ({type:"boolean"} for a surviving
\* boolean literal), and when the union held undefined or the ambient
\* optional flag is set every element carries optional:true.
C5_AlternativesInMemberOrder ==
    /\ ReturnedAlternative =>
          /\ ret.by.type = TopTypes[Top.i]
          /\ Len(Top.acc) = Top.i - 1
          /\ ~ret.by.optional
          /\ ret.by.depth \in {Top.depth, Top.depth + 1}
          /\ ret.node = valueOf(ret.by, MaxStack - Len(stack)).node
    /\ ReturnedAlternatives =>
          LET types == unionTypes(Types[ret.by.type])
              optional == ret.by.optional \/ unionOptional(Types[ret.by.type])
              elements == ret.node.elements
          IN  /\ ret.node.k = "arr"
              /\ Len(elements) = Len(types)
              /\ Len(ret.by.acc) = Len(types)
              /\ \A i \in DOMAIN types :
                    /\ isBooleanLiteral(types[i]) => ret.by.acc[i] = TypeNode("boolean")
                    /\ elements[i].k = "obj"
                    /\ elements[i].properties =
                          IF optional
                          THEN Append(ret.by.acc[i].properties, OptionalAssignment)
                          ELSE ret.by.acc[i].properties
                    /\ optional =>
                          Cardinality({k \in DOMAIN elements[i].properties :
                                          elements[i].properties[k] = OptionalAssignment}) >= 1

\* C5 witness: boolean | Pair | IDate | undefined returns three elements,
\* each with optional:true
C5_Witness ==
    /\ ReturnedAlternatives
    /\ ret.by.type = "M_mix"
    /\ Len(ret.node.elements) = 3
    /\ ret.node.elements[1] = booleanNode(TRUE)

\* the names of the doc tags of the types and of their properties
DocTagNames ==
    UNION {
        {Types[id].docs[i].name : i \in DOMAIN Types[id].docs}
        \cup {Types[id].aliasDocs[i].name : i \in DOMAIN Types[id].aliasDocs}
        \cup UNION {{Types[id].props[i].docs[j].name : j \in DOMAIN Types[id].props[i].docs} :
                        i \in DOMAIN Types[id].props}
        : id \in TypeIds}

\* no doc tag is named like a key of the schema or like a property
TagNamesApart ==
    /\ DocTagNames \cap {"type", "props", "items", "values", "optional"} = {}
    /\ \A id \in TypeIds : \A i \in DOMAIN Types[id].props :
          Types[id].props[i].name \notin DocTagNames

RECURSIVE HasDocKey(_)
HasDocKey(node) ==
    IF node.k = "obj"
    THEN \E i \in DOMAIN node.properties :
            \/ node.properties[i].name \in DocTagNames
            \/ HasDocKey(node.properties[i].initializer)
    ELSE IF node.k = "arr"
    THEN \E i \in DOMAIN node.elements : HasDocKey(node.elements[i])
    ELSE FALSE

\* node without the keys that come from doc tags
RECURSIVE StripDocs(_)
StripDocs(node) ==
    IF node.k = "obj"
    THEN LET kept == Ascending({i \in DOMAIN node.properties :
                                    node.properties[i].name \notin DocTagNames})
         IN  createObjectLiteral(
                [j \in 1..Len(kept) |->
                    createPropertyAssignment(node.properties[kept[j]].name,
                        StripDocs(node.properties[kept[j]].initializer))])
    ELSE IF node.k = "arr"
    THEN createArrayLiteral([i \in 1..Len(node.elements) |-> StripDocs(node.elements[i])])
    ELSE node

\* the schema of the same type with the additional flag left enabled
WithAdditional == parseType(call.typeArg, 0, <<>>, TRUE, FALSE, MaxStack)

DecomposedWithout ==
    /\ status = "done"
    /\ call.hasTypeArguments
    /\ call.arg = "false"

\* C7: with the additional flag disabled (first argument the literal false)
\* the schema holds no key that comes from a doc tag, at any nesting level,
\* and is otherwise the schema produced with the flag enabled: type, props,
\* items, values and optional are the same on every node.
C7_AdditionalOffDropsOnlyDocKeys ==
    /\ TagNamesApart
    /\ DecomposedWithout =>
          /\ ~HasDocKey(result.node)
          /\ WithAdditional.st = "return"
          /\ StripDocs(WithAdditional.node) = result.node

\* C7 witness: Other, whose property c and whose nested type Pair carry doc
\* tags, is decomposed with the flag disabled
C7_Witness ==
    /\ DecomposedWithout
    /\ call.typeArg = "Other"
    /\ HasDocKey(WithAdditional.node)
    /\ WithAdditional.node # result.node

\* the names of the doc tags of a type, of its symbol and of its alias, that
\* have a text
TypeTagNames(type) ==
    {type.docs[i].name : i \in {j \in DOMAIN type.docs : type.docs[j].text # ""}}
    \cup {type.aliasDocs[i].name :
            i \in {j \in DOMAIN type.aliasDocs : type.aliasDocs[j].text # ""}}

\* C11: when the call leaves additional enabled, every activation of
\* parseType of that call runs with additional enabled, and every object type
\* decomposed by parseInterface, at whatever nesting level and through
\* whatever rule it is reached (array element, union member, intersection
\* member), returns a node with the keys of its doc tags.
C11_AdditionalReachesEveryLevel ==
    callAdditional(call) =>
        /\ \A i \in DOMAIN stack :
                stack[i].fn = "parseType" => stack[i].additional
        /\ (/\ ret # NoRet
            /\ ret.by.fn = "parseInterface"
            /\ Len(interfaceProperties(Types[ret.by.type])) > 0)
           => \A name \in TypeTagNames(Types[ret.by.type]) :
                    \E i \in DOMAIN ret.node.properties :
                        ret.node.properties[i].name = name

\* every object literal of node has at most one key optional, with value true
RECURSIVE OptionalAtMostOnce(_)
OptionalAtMostOnce(node) ==
    IF node.k = "obj"
    THEN /\ Cardinality({i \in DOMAIN node.properties :
                            node.properties[i].name = "optional"}) <= 1
         /\ \A i \in DOMAIN node.properties :
                /\ node.properties[i].name = "optional"
                        => node.properties[i].initializer = TrueLiteral
                /\ OptionalAtMostOnce(node.properties[i].initializer)
    ELSE IF node.k = "arr"
    THEN \A i \in DOMAIN node.elements : OptionalAtMostOnce(node.elements[i])
    ELSE TRUE

\* C12: every node of the schema carries the key optional at most once, with
\* value true, whatever combination of a question-mark property, an undefined
\* union member and the optional argument led to it and whatever kind of node
\* it is: in every node an activation builds from the nodes returned to it
\* and in the node that replaces the call.
C12_OptionalKeyAtMostOnce ==
    /\ \A i \in DOMAIN stack : \A j \in DOMAIN stack[i].acc :
            IF "k" \in DOMAIN stack[i].acc[j]
            THEN OptionalAtMostOnce(stack[i].acc[j])
            ELSE OptionalAtMostOnce(stack[i].acc[j].initializer)
    /\ ret # NoRet => OptionalAtMostOnce(ret.node)
    /\ status = "done" => OptionalAtMostOnce(result.node)

(***************************************************************************)
(* Claims about the traversal and about both variants, under TreeSpec.     *)
(***************************************************************************)
\* a type of none of the kinds the dispatch has a rule for
Unrecognized(id) ==
    LET flags == Types[id].flags
    IN  /\ ~isPrimitive(flags)
        /\ ~isForbidden(flags)
        /\ flags # {"Object"}
        /\ flags # {"Union"}
        /\ flags # {"Intersection"}
        /\ ~HasFlag(flags, EnumLike)

\* C8: in both variants a type of none of the kinds the dispatch knows makes
\* the decomposition fail with the error that aborts the transformation: no
\* activation of parseType returns a node for such a type, and no schema call
\* with such a type argument is ever replaced by a node.
C8_UnrecognizedTypeAborts ==
    /\ ret # NoRet /\ ret.by.fn = "parseType" => ~Unrecognized(ret.by.type)
    /\ \A i \in DOMAIN visits :
            visits[i].replaced /\ visits[i].origin.hasTypeArguments
                => ~Unrecognized(visits[i].origin.typeArg)

\* the replaced calls among the activations of the traversal
ReplacedVisits == {i \in DOMAIN visits : visits[i].replaced}

\* the activation i runs on a node inside a replacement
InsideReplacement(i) == \E j \in ReplacedVisits : j < i

\* C9 as stated: after a schema call is replaced the traversal goes on only
\* in the other nodes of the tree, and visitNodeAndChildren is never applied
\* to a child of the replacement literal.
C9_ReplacementNotVisited ==
    \A i \in DOMAIN visits : ~InsideReplacement(i)

\* the file with every schema call replaced by the node decomposed from its
\* type argument, and nothing inside a replaced call or a replacement touched
RECURSIVE Rewritten(_, _)
Rewritten(v, node) ==
    IF isKeysCallExpression(node)
    THEN IF ~node.hasTypeArguments THEN createObjectLiteral(<<>>)
         ELSE IF v = "compiled"
         THEN parseType(node.typeArg, 0, <<>>, callAdditional(node), FALSE, MaxStack).node
         ELSE parseTypeTs(node.typeArg, MaxStack).node
    ELSE WithChildren(node, [i \in 1..Len(Children(node)) |-> Rewritten(v, Children(node)[i])])

\* C9 amended: the traversal does go into the replacement literal: the nodes
\* visited below a replaced call are the children of the literal, not of the
\* call; none of them is a schema call, each is returned as it is, and the
\* literal is rebuilt unchanged, so the file returned is the file with every
\* schema call replaced and nothing else changed.
C9_ReplacementVisitedUnchanged ==
    /\ \A i \in DOMAIN visits : i > 1 =>
            /\ visits[i - 1].i \in DOMAIN Children(visits[i - 1].node)
            /\ visits[i].origin = Children(visits[i - 1].node)[visits[i - 1].i]
    /\ \A i \in DOMAIN visits : InsideReplacement(i) =>
            /\ ~isKeysCallExpression(visits[i].origin)
            /\ visits[i].node = visits[i].origin
    /\ \A i \in DOMAIN visits : visits[i].replaced \/ InsideReplacement(i) =>
            /\ Len(visits[i].acc) <= Len(Children(visits[i].node))
            /\ visits[i].acc = SubSeq(Children(visits[i].node), 1, Len(visits[i].acc))
    /\ outcome.st = "return" => outcome.node = Rewritten(variant, file)

\* a child of a replacement literal is being visited, and the file is returned
C9_Witness ==
    \E i \in DOMAIN visits :
        /\ InsideReplacement(i)
        /\ "k" \notin DOMAIN visits[i].origin
        /\ Len(visits[i].acc) = 2

====
